---------------------------- MODULE Spec2Model ----------------------------
(***************************************************************************)
(* A model of flowerid's C++ binding (bindings/flowerid_cpp) over the      *)
(* native core declared in bindings/flowerid_c/include/flowerid.h.         *)
(*                                                                         *)
(* The binding (class FID, FIDGeneratorBuilder, FIDGenerator) is modelled  *)
(* from flowerid.cpp.  The native functions flowerid_* are only declared   *)
(* in the C header; their bodies are modelled from the specification.      *)
(*                                                                         *)
(* A uint64_t is a tuple of four 16-bit words, most significant first, so  *)
(* that every 64-bit value is representable with TLC's 32-bit integers.    *)
(***************************************************************************)
EXTENDS Integers, Sequences, FiniteSets, TLC

(***************************************************************************)
(* 64-bit unsigned arithmetic on four 16-bit words.                        *)
(***************************************************************************)
Base == 2^16

Word == 0..(Base - 1)

\* uint64_t of a small natural (n < 2^31).
Num(n) == <<0, 0, n \div Base, n % Base>>

Wd(v, i) == IF i \in 1..4 THEN v[i] ELSE 0

\* v >> n, for 0 <= n < 64.
ShrWord(v, i, q, r) ==
    (Wd(v, i - q) \div 2^r) + (Wd(v, i - q - 1) % 2^r) * 2^(16 - r)

Shr(v, n) ==
    LET q == n \div 16
        r == n % 16
    IN  <<ShrWord(v, 1, q, r), ShrWord(v, 2, q, r),
          ShrWord(v, 3, q, r), ShrWord(v, 4, q, r)>>

\* (v << n) mod 2^64, for 0 <= n < 64.
ShlWord(v, i, q, r) ==
    (Wd(v, i + q) % 2^(16 - r)) * 2^r + (Wd(v, i + q + 1) \div 2^(16 - r))

Shl(v, n) ==
    LET q == n \div 16
        r == n % 16
    IN  <<ShlWord(v, 1, q, r), ShlWord(v, 2, q, r),
          ShlWord(v, 3, q, r), ShlWord(v, 4, q, r)>>

RECURSIVE OrWord(_, _)
OrWord(x, y) ==
    IF x = 0 THEN y
    ELSE IF y = 0 THEN x
    ELSE (IF x % 2 = 1 \/ y % 2 = 1 THEN 1 ELSE 0)
         + 2 * OrWord(x \div 2, y \div 2)

RECURSIVE AndWord(_, _)
AndWord(x, y) ==
    IF x = 0 \/ y = 0 THEN 0
    ELSE (IF x % 2 = 1 /\ y % 2 = 1 THEN 1 ELSE 0)
         + 2 * AndWord(x \div 2, y \div 2)

\* a | b
Or(a, b) == <<OrWord(a[1], b[1]), OrWord(a[2], b[2]),
              OrWord(a[3], b[3]), OrWord(a[4], b[4])>>

\* a & b
And(a, b) == <<AndWord(a[1], b[1]), AndWord(a[2], b[2]),
               AndWord(a[3], b[3]), AndWord(a[4], b[4])>>

\* a < b, unsigned
Lt(a, b) ==
    \/ a[1] < b[1]
    \/ a[1] = b[1] /\ a[2] < b[2]
    \/ a[1] = b[1] /\ a[2] = b[2] /\ a[3] < b[3]
    \/ a[1] = b[1] /\ a[2] = b[2] /\ a[3] = b[3] /\ a[4] < b[4]

Le(a, b) == a = b \/ Lt(a, b)

\* (a + b) mod 2^64
Add(a, b) ==
    LET s4 == a[4] + b[4]
        s3 == a[3] + b[3] + s4 \div Base
        s2 == a[2] + b[2] + s3 \div Base
        s1 == a[1] + b[1] + s2 \div Base
    IN  <<s1 % Base, s2 % Base, s3 % Base, s4 % Base>>

\* 2^k as a uint64_t, 0 <= k < 64
Pow2(k) == Shl(Num(1), k)

\* 2^k - 1 as a uint64_t, 0 <= k <= 64
Mask(k) == Shr(<<Base - 1, Base - 1, Base - 1, Base - 1>>, 64 - k)

\* (v * m) mod 2^64 for a small multiplier 0 <= m < 2^15
MulSmall(v, m) ==
    LET p4 == v[4] * m
        p3 == v[3] * m + p4 \div Base
        p2 == v[2] * m + p3 \div Base
        p1 == v[1] * m + p2 \div Base
    IN  <<p1 % Base, p2 % Base, p3 % Base, p4 % Base>>

\* The uint64_t written as the decimal digits ds, most significant first.
RECURSIVE Dec(_)
Dec(ds) ==
    IF ds = <<>> THEN Num(0)
    ELSE Add(MulSmall(Dec(SubSeq(ds, 1, Len(ds) - 1)), 10), Num(ds[Len(ds)]))

UInt64Max == <<Base - 1, Base - 1, Base - 1, Base - 1>>

(***************************************************************************)
(* Result codes of the native interface.                                   *)
(***************************************************************************)
FID_RESULT_OK == 0
FID_RESULT_INVALIDARGUMENT == -1
FID_RESULT_TIMESTAMPOVERFLOW == -2
FID_RESULT_SEQUENCEOVERFLOW == -3
FID_RESULT_GENERATOROVERFLOW == -4
FID_RESULT_SYSTIMEISINPAST == -5
FID_RESULT_WRONGSLICESIZE == -6
FID_RESULT_BASE64DECODEERROR == -7
FID_RESULT_BUFFERWRONGSIZE == -8

(***************************************************************************)
(* The identifier layout: [timestamp:43][sequence:11][generator:10].       *)
(***************************************************************************)
TimestampBits == 43
SequenceBits == 11
GeneratorBits == 10

\* The value left in an output parameter the native call did not write.
Unset == "unset"

(***************************************************************************)
(* The native codec (bodies modelled from the specification).  A call      *)
(* returns its int32_t result as ret and what it wrote through its output  *)
(* pointer as out.                                                         *)
(***************************************************************************)
flowerid_new(timestamp, sequence, generator) ==
    IF ~Lt(timestamp, Pow2(TimestampBits))
    THEN [ret |-> FID_RESULT_TIMESTAMPOVERFLOW, out |-> Unset]
    ELSE IF ~Lt(sequence, Pow2(SequenceBits))
    THEN [ret |-> FID_RESULT_SEQUENCEOVERFLOW, out |-> Unset]
    ELSE IF ~Lt(generator, Pow2(GeneratorBits))
    THEN [ret |-> FID_RESULT_GENERATOROVERFLOW, out |-> Unset]
    ELSE [ret |-> FID_RESULT_OK,
          out |-> Or(Or(Shl(timestamp, SequenceBits + GeneratorBits),
                        Shl(sequence, GeneratorBits)),
                     generator)]

flowerid_get_timestamp(self) == Shr(self, SequenceBits + GeneratorBits)

flowerid_get_sequence(self) == And(Shr(self, GeneratorBits), Mask(SequenceBits))

flowerid_get_generator(self) == And(self, Mask(GeneratorBits))

\* Byte i (1..8, most significant first) of a uint64_t.
ByteOf(self, i) == Shr(self, 64 - 8 * i)[4] % 256

flowerid_to_bytes(self, buffer_size) ==
    IF buffer_size # 8
    THEN [ret |-> FID_RESULT_BUFFERWRONGSIZE, out |-> Unset]
    ELSE [ret |-> 8,
          out |-> <<ByteOf(self, 1), ByteOf(self, 2), ByteOf(self, 3),
                    ByteOf(self, 4), ByteOf(self, 5), ByteOf(self, 6),
                    ByteOf(self, 7), ByteOf(self, 8)>>]

flowerid_from_bytes(buffer, buffer_size) ==
    IF buffer_size # 8
    THEN [ret |-> FID_RESULT_WRONGSLICESIZE, out |-> Unset]
    ELSE [ret |-> FID_RESULT_OK,
          out |-> <<buffer[1] * 256 + buffer[2], buffer[3] * 256 + buffer[4],
                    buffer[5] * 256 + buffer[6], buffer[7] * 256 + buffer[8]>>]

\* The URL-safe Base64 alphabet, value v at position v + 1.
Alphabet ==
    <<"A", "B", "C", "D", "E", "F", "G", "H", "I", "J", "K", "L", "M",
      "N", "O", "P", "Q", "R", "S", "T", "U", "V", "W", "X", "Y", "Z",
      "a", "b", "c", "d", "e", "f", "g", "h", "i", "j", "k", "l", "m",
      "n", "o", "p", "q", "r", "s", "t", "u", "v", "w", "x", "y", "z",
      "0", "1", "2", "3", "4", "5", "6", "7", "8", "9", "-", "_">>

\* Bit k (0 = the most significant bit of the first byte) of a byte string,
\* 0 past its end.
BitOfBytes(bytes, k) ==
    IF k \div 8 < Len(bytes) THEN (bytes[k \div 8 + 1] \div 2^(7 - (k % 8))) % 2
    ELSE 0

\* The i-th (1..11) six-bit group of 8 bytes followed by two zero bits.
Sextet(bytes, i) ==
    LET b(j) == BitOfBytes(bytes, 6 * (i - 1) + j)
    IN  32 * b(0) + 16 * b(1) + 8 * b(2) + 4 * b(3) + 2 * b(4) + b(5)

\* Unpadded URL-safe Base64 of 8 bytes.
Base64Encode(bytes) == [i \in 1..11 |-> Alphabet[Sextet(bytes, i) + 1]]

flowerid_to_string(self, buffer_size) ==
    IF buffer_size < 11
    THEN [ret |-> FID_RESULT_BUFFERWRONGSIZE, out |-> Unset]
    ELSE [ret |-> 11, out |-> Base64Encode(flowerid_to_bytes(self, 8).out)]

\* The six-bit value of a character, or -1 outside the alphabet.
SextetOf(ch) ==
    IF \E v \in 1..64 : Alphabet[v] = ch
    THEN (CHOOSE v \in 1..64 : Alphabet[v] = ch) - 1
    ELSE -1

\* Bit k (0 = the most significant bit of the first character's group) of
\* the 66 bits that 11 characters carry.
BitOfText(text, k) == (SextetOf(text[k \div 6 + 1]) \div 2^(5 - (k % 6))) % 2

\* The i-th (1..8) byte of the first 64 bits; the last 2 bits are dropped.
Octet(text, i) ==
    LET b(j) == BitOfText(text, 8 * (i - 1) + j)
    IN  128 * b(0) + 64 * b(1) + 32 * b(2) + 16 * b(3)
        + 8 * b(4) + 4 * b(5) + 2 * b(6) + b(7)

Base64Decode(text) == [i \in 1..8 |-> Octet(text, i)]

flowerid_from_string(buffer) ==
    IF Len(buffer) # 11 \/ \E i \in 1..Len(buffer) : SextetOf(buffer[i]) < 0
    THEN [ret |-> FID_RESULT_BASE64DECODEERROR, out |-> Unset]
    ELSE flowerid_from_bytes(Base64Decode(buffer), 8)

(***************************************************************************)
(* class Error and class FID of the binding.  A call either yields a       *)
(* value (Value) or throws Error(code) (Throw).                            *)
(***************************************************************************)
Value(v) == [ok |-> TRUE, val |-> v]

Throw(code) == [ok |-> FALSE, code |-> code]

\* A faulty variant of the private constructor: it takes a 32-bit value.
FID_origin_truncated(origin) == <<0, 0, origin[3], origin[4]>>

\* FID::FID(uint64_t origin), the private constructor.
FID_origin(origin) == origin

\* Faulty variants of FID::FID(timestamp, sequence, generator): one ignores
\* the result code, one passes sequence and generator in each other's place.
FID_new_unchecked(timestamp, sequence, generator) ==
    LET r == flowerid_new(timestamp, sequence, generator)
    IN  Value(IF r.ret < 0 THEN Num(0) ELSE r.out)

FID_new_swapped(timestamp, sequence, generator) ==
    LET r == flowerid_new(timestamp, generator, sequence)
    IN  IF r.ret < 0 THEN Throw(r.ret) ELSE Value(r.out)

\* FID::FID(timestamp, sequence, generator)
FID_new(timestamp, sequence, generator) ==
    LET r == flowerid_new(timestamp, sequence, generator)
    IN  IF r.ret < 0 THEN Throw(r.ret) ELSE Value(r.out)

FID_timestamp(fid) == flowerid_get_timestamp(fid)

\* A faulty variant of FID::sequence: it calls the generator accessor.
FID_sequence_as_generator(fid) == flowerid_get_generator(fid)

FID_sequence(fid) == flowerid_get_sequence(fid)

FID_generator(fid) == flowerid_get_generator(fid)

\* char buffer[12]
StringBufferSize == 12

FID_to_string(fid) ==
    LET r == flowerid_to_string(fid, StringBufferSize)
    IN  IF r.ret # 11 THEN Throw(r.ret) ELSE Value(r.out)

\* A faulty variant of FID::to_bytes: it expects 0, not the byte count.
FID_to_bytes_expect_ok(fid) ==
    LET r == flowerid_to_bytes(fid, 8)
    IN  IF r.ret # 0 THEN Throw(r.ret) ELSE Value(r.out)

FID_to_bytes(fid) ==
    LET r == flowerid_to_bytes(fid, 8)
    IN  IF r.ret # 8 THEN Throw(r.ret) ELSE Value(r.out)

FID_to_int(fid) == fid

\* The character that ends a C string.
NUL == "<NUL>"

\* std::string::c_str() as the native call reads it: the characters before
\* the first NUL.
CStr(origin) ==
    LET ends == {i \in 1..Len(origin) : origin[i] = NUL}
    IN  IF ends = {} THEN origin
        ELSE SubSeq(origin, 1, (CHOOSE i \in ends : \A j \in ends : i <= j) - 1)

\* A faulty variant of FID::from_string: it throws on FID_RESULT_OK and
\* returns on an error.
FID_from_string_inverted(origin) ==
    LET r == flowerid_from_string(CStr(origin))
    IN  IF r.ret = 0 THEN Throw(r.ret) ELSE Value(Num(0))

FID_from_string(origin) ==
    LET r == flowerid_from_string(CStr(origin))
    IN  IF r.ret # 0 THEN Throw(r.ret) ELSE Value(FID_origin(r.out))

FID_from_bytes(origin) ==
    LET r == flowerid_from_bytes(origin, Len(origin))
    IN  IF r.ret # 0 THEN Throw(r.ret) ELSE Value(FID_origin(r.out))

\* A faulty variant of FID::from_int: it drops the value.
FID_from_int_zero(origin) == FID_origin(Num(0))

FID_from_int(origin) == FID_origin(origin)

\* FID::operator>, <, >=, <=, ==, !=
FID_gt(left, right) == Lt(right, left)

\* A faulty variant of operator<: it compares the values as signed.
FID_lt_signed(left, right) ==
    Lt([left EXCEPT ![1] = (@ + 2^15) % 2^16],
       [right EXCEPT ![1] = (@ + 2^15) % 2^16])

FID_lt(left, right) == Lt(left, right)

FID_ge(left, right) == ~Lt(left, right)

FID_le(left, right) == ~Lt(right, left)

FID_eq(left, right) == left = right

FID_ne(left, right) == left # right


(***************************************************************************)
(* class FIDGeneratorBuilder: the staged configuration.                    *)
(***************************************************************************)
DefaultTimestampOffset == -1483228800

FIDGeneratorBuilder(generator) ==
    [generator |-> generator,
     timestamp_offset |-> DefaultTimestampOffset,
     timestamp_last |-> Num(0),
     sequence |-> Num(0),
     wait_sequence |-> TRUE,
     timestamp_in_seconds |-> FALSE]

Builder_timestamp_offset(b, timestamp_offset) ==
    [b EXCEPT !.timestamp_offset = timestamp_offset]

\* A faulty variant of the setter: it assigns the sequence.
Builder_timestamp_last_as_sequence(b, timestamp_last) ==
    [b EXCEPT !.sequence = timestamp_last]

Builder_timestamp_last(b, timestamp_last) ==
    [b EXCEPT !.timestamp_last = timestamp_last]

Builder_sequence(b, sequence) == [b EXCEPT !.sequence = sequence]

Builder_wait_sequence(b) == [b EXCEPT !.wait_sequence = TRUE]

Builder_not_wait_sequence(b) == [b EXCEPT !.wait_sequence = FALSE]

Builder_timestamp_in_seconds(b) == [b EXCEPT !.timestamp_in_seconds = TRUE]

Builder_timestamp_in_millisecond(b) == [b EXCEPT !.timestamp_in_seconds = FALSE]

(***************************************************************************)
(* The native generator (bodies modelled from the specification).  Its     *)
(* state is (timestamp_last, sequence) beside the configuration it was     *)
(* created with.  now is the sampled wall-clock time, already converted to *)
(* the configured unit and shifted by the epoch offset.                    *)
(***************************************************************************)
flowerid_generator_new_ex(generator, timestamp_offset, timestamp_last, sequence, wait_sequence, timestamp_in_seconds) ==
    IF ~Lt(generator, Pow2(GeneratorBits))
    THEN [ret |-> FID_RESULT_GENERATOROVERFLOW, out |-> Unset]
    ELSE [ret |-> FID_RESULT_OK,
          out |-> [generator |-> generator,
                   timestamp_offset |-> timestamp_offset,
                   timestamp_last |-> timestamp_last,
                   sequence |-> sequence,
                   wait_sequence |-> wait_sequence,
                   timestamp_in_seconds |-> timestamp_in_seconds]]

\* The largest sequence of a tick.
MaxSequence == Mask(SequenceBits)

\* Steps 5 and 6: pack the advanced state g2; the stored state becomes g2
\* only if packing succeeds, and stays g otherwise.
GeneratorCommit(g, g2) ==
    LET p == flowerid_new(g2.timestamp_last, g2.sequence, g2.generator)
    IN  IF p.ret < 0
        THEN [blocked |-> FALSE, ret |-> p.ret, out |-> Unset, gen |-> g]
        ELSE [blocked |-> FALSE, ret |-> FID_RESULT_OK, out |-> p.out, gen |-> g2]

\* Step 2: a newer tick.
GeneratorNewTick(g, now) ==
    GeneratorCommit(g, [g EXCEPT !.timestamp_last = now, !.sequence = Num(0)])

GeneratorBlocked(g) ==
    [blocked |-> TRUE, ret |-> FID_RESULT_OK, out |-> Unset, gen |-> g]

GeneratorFail(g, code) ==
    [blocked |-> FALSE, ret |-> code, out |-> Unset, gen |-> g]

\* flowerid_generator_next on its first sample.  blocked: the call has not
\* returned and re-samples the clock.
flowerid_generator_next(g, now) ==
    IF Lt(g.timestamp_last, now) THEN GeneratorNewTick(g, now)
    ELSE IF now = g.timestamp_last
    THEN IF ~Lt(g.sequence, MaxSequence)
         THEN IF g.wait_sequence
              THEN GeneratorBlocked(g)
              ELSE GeneratorFail(g, FID_RESULT_SEQUENCEOVERFLOW)
         ELSE GeneratorCommit(g, [g EXCEPT !.sequence = Add(@, Num(1))])
    ELSE GeneratorFail(g, FID_RESULT_SYSTIMEISINPAST)

\* flowerid_generator_next on a later sample of its wait on a full tick.
flowerid_generator_next_resample(g, now) ==
    IF Lt(g.timestamp_last, now) THEN GeneratorNewTick(g, now)
    ELSE GeneratorBlocked(g)

(***************************************************************************)
(* class FIDGenerator of the binding.                                      *)
(***************************************************************************)
\* A faulty variant of the constructor: it passes the sequence and the last
\* timestamp in each other's place.
FIDGenerator_new_swapped(cfg) ==
    LET r == flowerid_generator_new_ex(cfg.generator, cfg.timestamp_offset,
                                       cfg.sequence, cfg.timestamp_last,
                                       cfg.wait_sequence,
                                       cfg.timestamp_in_seconds)
    IN  IF r.ret < 0 THEN Throw(r.ret) ELSE Value(r.out)

\* Another faulty variant: it passes no generator id.
FIDGenerator_new_no_id(cfg) ==
    LET r == flowerid_generator_new_ex(Num(0), cfg.timestamp_offset,
                                       cfg.timestamp_last, cfg.sequence,
                                       cfg.wait_sequence,
                                       cfg.timestamp_in_seconds)
    IN  IF r.ret < 0 THEN Throw(r.ret) ELSE Value(r.out)

\* FIDGenerator::FIDGenerator(const FIDGeneratorBuilder &cfg)
FIDGenerator_new(cfg) ==
    LET r == flowerid_generator_new_ex(cfg.generator, cfg.timestamp_offset,
                                       cfg.timestamp_last, cfg.sequence,
                                       cfg.wait_sequence,
                                       cfg.timestamp_in_seconds)
    IN  IF r.ret < 0 THEN Throw(r.ret) ELSE Value(r.out)

\* FIDGeneratorBuilder::build
Builder_build(b) == FIDGenerator_new(b)

\* Faulty variants of FIDGenerator::next: one ignores the result code and
\* returns whatever `result` holds, one throws on FID_RESULT_OK too, one
\* and the one after it lose the code of the error.
FIDGenerator_next_unchecked(r) ==
    Value(FID_from_int(IF r.ret < 0 THEN Num(0) ELSE r.out))

FIDGenerator_next_throws_ok(r) ==
    IF r.ret <= 0 THEN Throw(r.ret) ELSE Value(FID_from_int(r.out))

FIDGenerator_next_invalid_argument(r) ==
    IF r.ret < 0 THEN Throw(FID_RESULT_INVALIDARGUMENT)
    ELSE Value(FID_from_int(r.out))

FIDGenerator_next_sequence_overflow(r) ==
    IF r.ret < 0 THEN Throw(FID_RESULT_SEQUENCEOVERFLOW)
    ELSE Value(FID_from_int(r.out))

FIDGenerator_next_sys_time(r) ==
    IF r.ret < 0 THEN Throw(FID_RESULT_SYSTIMEISINPAST)
    ELSE Value(FID_from_int(r.out))

\* Another faulty variant: it throws the code below the one returned.
FIDGenerator_next_code_below(r) ==
    IF r.ret < 0 THEN Throw(r.ret - 1) ELSE Value(FID_from_int(r.out))

\* FIDGenerator::next, once the native call has returned r.
FIDGenerator_next(r) ==
    IF r.ret < 0 THEN Throw(r.ret) ELSE Value(FID_from_int(r.out))

(***************************************************************************)
(* State.                                                                  *)
(*   builder    the FIDGeneratorBuilder the program configured             *)
(*   generator  the native generator behind the FIDGenerator, if built     *)
(*   clock      the adjusted wall-clock time a sample returns              *)
(*   pc         "idle", "waiting" (a next() call is re-sampling the clock  *)
(*              on a full tick) or "failed" (the constructor threw)        *)
(*   pending    the waiting call: its first sample and its re-samples      *)
(*   ncalls     the number of next() calls that have returned or thrown    *)
(*   tick       the position of the last call in a run of calls sampling   *)
(*              the tick a successful call opened, 0 outside such a run    *)
(*   hist       the calls that have returned or thrown, oldest first (the  *)
(*              latest HistLen of them)                                    *)
(*   codec      the identifier under construction, encoding and decoding   *)
(*   thr        per thread calling next() on the one generator: where the  *)
(*              call stands, what it sampled and read, what the native     *)
(*              call returned, how many calls the thread has begun         *)
(*   lock       the thread inside the native generator's critical section, *)
(*              0 if none                                                  *)
(*   slot       the `result` variables FIDGenerator::next writes through   *)
(*   log        the native calls in the order they left the critical       *)
(*              section                                                    *)
(*   returned   what FIDGenerator::next gave back to the threads           *)
(*   parse      a byte string or a text given to the decoders and what     *)
(*              they made of it                                            *)
(*   cmp        two identifiers and the results of the six comparisons     *)
(*   stage      a FIDGeneratorBuilder under configuration: its fields, the *)
(*              value last given to each setter, the result of build()     *)
(*   own        the FIDGenerator objects alive and the handle each holds,  *)
(*              the handles obtained and the releases of each              *)
(*   pair       two generators with generator ids of their own, and the    *)
(*              identifiers each has returned                              *)
(***************************************************************************)
VARIABLES builder, generator, clock, pc, pending, ncalls, tick, hist, codec,
          thr, lock, slot, log, returned, parse, cmp, stage, own, pair

vars == <<builder, generator, clock, pc, pending, ncalls, tick, hist, codec,
          thr, lock, slot, log, returned, parse, cmp, stage, own, pair>>

extVars == <<parse, cmp, stage, own, pair>>

concVars == <<thr, lock, slot, log, returned, extVars>>

threadVars == <<thr, lock, slot, log, returned>>

genVars == <<builder, generator, clock, pc, pending, ncalls, tick, hist>>

\* No object: a null handle, no pending call.
None == [none |-> TRUE]

NoGenerator == None

(***************************************************************************)
(* Bounds of the model and the inputs it draws.                            *)
(***************************************************************************)
\* next() calls explored from one configuration
MaxCalls == 3

\* next() calls explored from one configuration of a waiting generator
MaxLiveCalls == 1

\* next() calls made on two generators together
MaxPairCalls == 3

\* native generators the FIDGenerator objects obtain
MaxHandles == 2

\* next() calls made on a generator with a clock around zero
MaxFreshCalls == 3

\* decoder calls made on one input
MaxParses == 2

\* setter calls made on one builder
MaxSetterCalls == 3

\* next() calls each thread makes on the shared generator
MaxThreadCalls == 1

\* next() calls explored within one held tick
MaxTickCalls == 2050

\* re-samples counted for one waiting call
MaxSpins == 2

\* calls kept in hist
HistLen == MaxCalls

\* The golden vector of fid_test.
GoldenTimestamp == Dec(<<3, 0, 2, 0, 8, 0, 1, 1, 4, 6, 9, 1, 3>>)

GoldenSequence == Num(37)

GoldenGenerator == Num(160)

GoldenInteger == Dec(<<6, 3, 3, 5, 0, 7, 9, 1, 6, 6, 8, 5, 0, 9, 2, 9, 8, 2, 4>>)

MaxTimestamp == Mask(TimestampBits)

\* Adjusted clock values: two neighbouring ticks, the last tick the
\* timestamp field holds, and the first two it does not.
Clock ==
    {Num(1000), Num(1001), MaxTimestamp, Pow2(TimestampBits),
     Add(Pow2(TimestampBits), Num(1))}

\* Generator ids given to the builder: in range and out of range.
GeneratorIds == {GoldenGenerator, Pow2(GeneratorBits)}

\* Initial last timestamps given to the builder (none is validated).
InitialTimestamps == {Num(0), Num(1000), Add(Pow2(TimestampBits), Num(1))}

\* Initial sequences given to the builder (none is validated).
InitialSequences == {Num(0), Num(2046), MaxSequence, Pow2(SequenceBits)}

Builders ==
    {Builder_sequence(Builder_timestamp_last(FIDGeneratorBuilder(g), t), q) :
        g \in GeneratorIds, t \in InitialTimestamps, q \in InitialSequences}
    \cup
    {Builder_not_wait_sequence(
        Builder_sequence(Builder_timestamp_last(FIDGeneratorBuilder(g), t), q)) :
        g \in GeneratorIds, t \in InitialTimestamps, q \in InitialSequences}

(***************************************************************************)
(* The generator: construction, next(), the clock.                         *)
(***************************************************************************)
StateOf(g) == <<g.timestamp_last, g.sequence>>

\* The record hist keeps of a call: its first and its deciding sample, the
\* generator's state before and after, what FIDGenerator::next gave back,
\* whether it waited on a full tick and how many re-samples left it waiting.
CallRecord(first, now, g, r, waited, spins) ==
    [first |-> first, now |-> now, before |-> StateOf(g),
     after |-> StateOf(r.gen), ret |-> FIDGenerator_next(r),
     waited |-> waited, spins |-> spins]

Remember(h, c) ==
    IF Len(h) < HistLen THEN Append(h, c) ELSE Append(Tail(h), c)

\* The position of a call in the run of calls sampling one tick.
TickAfter(g, now, r) ==
    IF r.ret = FID_RESULT_OK /\ Lt(g.timestamp_last, now) THEN 1
    ELSE IF tick > 0 /\ now = g.timestamp_last THEN tick + 1
    ELSE 0

GenIdle ==
    /\ generator = NoGenerator
    /\ pc = "idle"
    /\ pending = None
    /\ ncalls = 0
    /\ tick = 0
    /\ hist = <<>>

CodecIdle == codec = [step |-> "off"]

Off == [step |-> "off"]

ExtIdle ==
    /\ parse = Off
    /\ cmp = Off
    /\ stage = Off
    /\ own = Off
    /\ pair = Off

ThreadsIdle ==
    /\ thr = <<>>
    /\ lock = 0
    /\ slot = <<>>
    /\ log = <<>>
    /\ returned = <<>>

ConcIdle == ThreadsIdle /\ ExtIdle

\* FIDGeneratorBuilder::build: FIDGenerator's constructor creates the native
\* generator or throws.
Build ==
    /\ pc = "idle"
    /\ generator = NoGenerator
    /\ LET r == Builder_build(builder)
       IN  IF r.ok
           THEN generator' = r.val /\ pc' = "idle"
           ELSE generator' = NoGenerator /\ pc' = "failed"
    /\ UNCHANGED <<builder, clock, pending, ncalls, tick, hist, codec, concVars>>

\* A next() call returns or throws.
Return(first, g, r, waited, spins) ==
    /\ generator' = r.gen
    /\ pc' = "idle"
    /\ pending' = None
    /\ ncalls' = ncalls + 1
    /\ tick' = TickAfter(g, clock, r)
    /\ hist' = Remember(hist, CallRecord(first, clock, g, r, waited, spins))

\* FIDGenerator::next: the native call samples the clock and returns, or
\* starts to wait on a full tick.
Call(limit) ==
    /\ pc = "idle"
    /\ generator # NoGenerator
    /\ ncalls < limit
    /\ LET r == flowerid_generator_next(generator, clock)
       IN  IF r.blocked
           THEN /\ pc' = "waiting"
                /\ pending' = [first |-> clock, spins |-> 0]
                /\ UNCHANGED <<generator, ncalls, tick, hist>>
           ELSE Return(clock, generator, r, FALSE, 0)
    /\ UNCHANGED <<builder, clock, codec, concVars>>

\* The waiting call samples the clock again.
Resample ==
    /\ pc = "waiting"
    /\ LET r == flowerid_generator_next_resample(generator, clock)
       IN  IF r.blocked
           THEN /\ pending' = [pending EXCEPT
                        !.spins = IF @ < MaxSpins THEN @ + 1 ELSE @]
                /\ UNCHANGED <<generator, pc, ncalls, tick, hist>>
           ELSE Return(pending.first, generator, r, TRUE, pending.spins)
    /\ UNCHANGED <<builder, clock, codec, concVars>>

\* The wall clock moves, forward or backward.
ClockMoves ==
    /\ clock' \in Clock \ {clock}
    /\ UNCHANGED <<builder, generator, pc, pending, ncalls, tick, hist, codec,
                   concVars>>

Init ==
    /\ builder \in Builders
    /\ clock \in Clock
    /\ GenIdle
    /\ CodecIdle
    /\ ConcIdle

Next ==
    \/ Build
    \/ Call(MaxCalls)
    \/ Resample
    \/ ClockMoves

Spec == Init /\ [][Next]_vars

\* Generators built to wait, with the loop of a waiting call always
\* eventually run: the call spins on the clock, so a re-sample that stays
\* possible happens.
InitLive ==
    /\ builder \in {b \in Builders : b.wait_sequence}
    /\ clock \in Clock
    /\ GenIdle
    /\ CodecIdle
    /\ ConcIdle

NextLive ==
    \/ Build
    \/ Call(MaxLiveCalls)
    \/ Resample
    \/ ClockMoves

SpecLive == InitLive /\ [][NextLive]_vars /\ WF_vars(Resample)

(***************************************************************************)
(* One tick held: a generator that does not wait, and a clock that stays   *)
(* one tick after the configured last timestamp.                           *)
(***************************************************************************)
TickStarts == {Num(1000), Shl(Mask(TimestampBits - 1), 1), MaxTimestamp}

TickBuilders ==
    {Builder_not_wait_sequence(
        Builder_sequence(Builder_timestamp_last(FIDGeneratorBuilder(g), t), q)) :
        g \in GeneratorIds, t \in TickStarts, q \in InitialSequences}

InitTick ==
    /\ builder \in TickBuilders
    /\ clock = Add(builder.timestamp_last, Num(1))
    /\ GenIdle
    /\ CodecIdle
    /\ ConcIdle

NextTick ==
    \/ Build
    \/ Call(MaxTickCalls)

SpecTick == InitTick /\ [][NextTick]_vars

(***************************************************************************)
(* Properties of the generator.                                            *)
(***************************************************************************)
Calls == 1..Len(hist)

IdOf(i) == hist[i].ret.val

Built == generator # NoGenerator

\* The sequence of the tick is full: one more would exceed 2047.
Full(state) == ~Lt(state[2], MaxSequence)

\* C1: identifiers returned by successful next() calls of one generator are
\* ordered by call order: an earlier one is <= a later one, and < whenever
\* the generator's tick or its sequence within the tick advanced between
\* the two calls, whatever calls failed in between and however the clock
\* moved.
C1_Ordered ==
    \A i, j \in Calls :
        (i < j /\ hist[i].ret.ok /\ hist[j].ret.ok) =>
            /\ FID_le(IdOf(i), IdOf(j))
            /\ ( \/ Lt(hist[i].after[1], hist[j].after[1])
                 \/ /\ hist[i].after[1] = hist[j].after[1]
                    /\ Lt(hist[i].after[2], hist[j].after[2]) )
               => FID_lt(IdOf(i), IdOf(j))

\* Two successes around a failed call, the later one on an older clock value
\* than some sample in between.
C1_Witness ==
    /\ Len(hist) = 3
    /\ hist[1].ret.ok /\ ~hist[2].ret.ok /\ hist[3].ret.ok
    /\ Lt(hist[2].now, hist[1].now)
    /\ FID_lt(IdOf(1), IdOf(3))

\* The latest call and the one before it.
Latest == hist[Len(hist)]

Before == hist[Len(hist) - 1]

\* The number of identifiers one tick holds.
TickCapacity == 2^SequenceBits

\* What C3 says of the calls made so far in the held tick: every call so far
\* sampled that tick, the first TickCapacity of them returned increasing
\* identifiers carrying the tick, the generator id and the sequences 0, 1,
\* ... in call order, and the calls after them threw SequenceOverflow.
HeldTickCalls ==
    /\ tick = ncalls
    /\ ncalls > 0 =>
        /\ Latest.now = clock
        /\ IF tick <= TickCapacity
           THEN /\ Latest.ret.ok
                /\ FID_timestamp(Latest.ret.val) = clock
                /\ FID_sequence(Latest.ret.val) = Num(tick - 1)
                /\ FID_generator(Latest.ret.val) = builder.generator
                /\ tick > 1 => /\ Before.ret.ok
                               /\ FID_lt(Before.ret.val, Latest.ret.val)
           ELSE /\ Latest.ret = Throw(FID_RESULT_SEQUENCEOVERFLOW)
                /\ Latest.after = Latest.before

\* C3 as claimed: a generator built not to wait, its clock held one tick
\* after last_timestamp: the first 2048 next() calls return increasing
\* identifiers of that tick with sequences 0..2047 and the 2049th throws
\* SequenceOverflow.
C3_Original == HeldTickCalls

\* C3, amended: the same, provided the held tick is at most 2^43-1 (a later
\* tick does not fit the timestamp field, and every call on it throws
\* TimestampOverflow).
C3_HeldTick == Le(clock, MaxTimestamp) => HeldTickCalls

\* The 2049th call of the tick threw SequenceOverflow after the 2048th
\* returned sequence 2047.
C3_Witness ==
    /\ tick = TickCapacity + 1
    /\ Latest.ret = Throw(FID_RESULT_SEQUENCEOVERFLOW)
    /\ Before.ret.ok
    /\ FID_sequence(Before.ret.val) = MaxSequence
    /\ FID_timestamp(Before.ret.val) = clock

\* The call is rejected for a clock in the past: its first sample is older
\* than last_timestamp.
InPast(c) == Lt(c.first, c.before[1])

\* The successful outcome of a call in a newer tick, and in the tick of
\* `state`.
OpensTick(c) ==
    /\ c.ret.ok
    /\ c.after = <<c.now, Num(0)>>
    /\ FID_timestamp(c.ret.val) = c.now
    /\ FID_sequence(c.ret.val) = Num(0)
    /\ FID_generator(c.ret.val) = builder.generator

StaysInTick(c, state) ==
    /\ c.ret.ok
    /\ c.after = <<state[1], Add(state[2], Num(1))>>
    /\ FID_timestamp(c.ret.val) = state[1]
    /\ FID_sequence(c.ret.val) = Add(state[2], Num(1))
    /\ FID_generator(c.ret.val) = builder.generator

\* The call threw `code` and left the state it found.
Rejected(c, code) ==
    /\ c.ret = Throw(code)
    /\ c.after = c.before

\* What a call does on a sample of the tick of `state`, not below it: it
\* opens a newer tick or takes the next sequence, as far as the fields hold
\* the result; on a full tick it throws SequenceOverflow at once or, built
\* to wait, returns on a later, newer sample.
AsOnState(c, state) ==
    IF Lt(state[1], c.first)
    THEN /\ c.now = c.first /\ ~c.waited
         /\ IF Le(c.first, MaxTimestamp) THEN OpensTick(c)
            ELSE Rejected(c, FID_RESULT_TIMESTAMPOVERFLOW)
    ELSE IF ~Full(state)
    THEN /\ c.now = c.first /\ ~c.waited
         /\ IF Le(state[1], MaxTimestamp) THEN StaysInTick(c, state)
            ELSE Rejected(c, FID_RESULT_TIMESTAMPOVERFLOW)
    ELSE IF ~generator.wait_sequence
    THEN /\ c.now = c.first /\ ~c.waited
         /\ Rejected(c, FID_RESULT_SEQUENCEOVERFLOW)
    ELSE /\ c.waited /\ Lt(state[1], c.now)
         /\ IF Le(c.now, MaxTimestamp) THEN OpensTick(c)
            ELSE Rejected(c, FID_RESULT_TIMESTAMPOVERFLOW)

\* What C4 says of the call itself: a sample below last_timestamp throws
\* SysTimeIsInPast at once, waiting or not, and leaves the state.
ThrowsInPast(c) ==
    /\ Rejected(c, FID_RESULT_SYSTIMEISINPAST)
    /\ ~c.waited /\ c.spins = 0
    /\ c.now = c.first

\* C4 as claimed: a next() call whose sample is below last_timestamp throws
\* SysTimeIsInPast at once and leaves the state, and the next call whose
\* sample is not below last_timestamp succeeds.
C4_Original ==
    \A i \in Calls :
        InPast(hist[i]) =>
            /\ ThrowsInPast(hist[i])
            /\ ((i + 1) \in Calls /\ ~InPast(hist[i + 1]))
                => hist[i + 1].ret.ok

\* C4, amended: a next() call whose sample is below last_timestamp throws
\* SysTimeIsInPast at once, waiting or not, and leaves (last_timestamp,
\* sequence) as they were; the generator is not left failed: the next call
\* finds the state the failed call found and, on a sample not below
\* last_timestamp, does what it would have done without the failed call.
\* It succeeds if the sample is a newer tick of at most 2^43-1 or the same
\* tick, of at most 2^43-1, with a sequence below 2047; a timestamp above
\* 2^43-1 throws TimestampOverflow, and a full tick throws SequenceOverflow
\* or, on a generator built to wait, is waited out.
C4_InPast ==
    \A i \in Calls :
        InPast(hist[i]) =>
            /\ ThrowsInPast(hist[i])
            /\ ((i + 1) \in Calls /\ ~InPast(hist[i + 1])) =>
                /\ hist[i + 1].before = hist[i].before
                /\ AsOnState(hist[i + 1], hist[i].before)

\* A waiting generator threw SysTimeIsInPast, and the next call, on a
\* corrected clock, returned the next sequence of the tick.
C4_Witness ==
    /\ Len(hist) = 3
    /\ generator.wait_sequence
    /\ hist[1].ret.ok
    /\ InPast(hist[2])
    /\ hist[3].ret.ok
    /\ hist[3].after = <<hist[1].after[1], Add(hist[1].after[2], Num(1))>>

\* The call finds the sampled tick full on a generator built to wait.
WaitsOnFull(c) ==
    /\ generator.wait_sequence
    /\ c.first = c.before[1]
    /\ Full(c.before)

\* C5 as claimed: the call that waited returns the identifier of the first
\* newer sample, sequence 0.
C5_Original ==
    \A i \in Calls :
        WaitsOnFull(hist[i]) => (Lt(hist[i].before[1], hist[i].now) /\ OpensTick(hist[i]))

C5_Returned ==
    \A i \in Calls :
        /\ generator.wait_sequence
            => hist[i].ret # Throw(FID_RESULT_SEQUENCEOVERFLOW)
        /\ WaitsOnFull(hist[i]) =>
            /\ hist[i].waited
            /\ Lt(hist[i].before[1], hist[i].now)
            /\ IF Le(hist[i].now, MaxTimestamp)
               THEN OpensTick(hist[i])
               ELSE /\ hist[i].ret = Throw(FID_RESULT_TIMESTAMPOVERFLOW)
                    /\ hist[i].after = hist[i].before

C5_Waiting ==
    /\ pc' = "waiting"
        => (generator' = generator /\ hist' = hist /\ ncalls' = ncalls)
    /\ (pc = "waiting" /\ ~Lt(generator.timestamp_last, clock))
        => pc' = "waiting"
    /\ (pc = "waiting" /\ pc' = "idle")
        => Lt(generator.timestamp_last, clock)

C5_Ahead == pc = "waiting" /\ Lt(generator.timestamp_last, clock)

\* C5, amended: on a generator built to wait, a next() call that finds
\* now == last_timestamp with the sequence at 2047 never throws
\* SequenceOverflow; it re-samples the clock, changing nothing, until a
\* sample now' > last_timestamp, and then returns the identifier of
\* (now', 0), which becomes the state, provided now' <= 2^43-1 (otherwise it
\* throws TimestampOverflow and the state stays); a call that keeps seeing
\* the clock ahead of last_timestamp returns.
C5_Waits ==
    /\ []C5_Returned
    /\ [][C5_Waiting]_vars
    /\ []<>(~C5_Ahead)

\* A call waited through a re-sample that was not newer and then returned
\* sequence 0 of the newer tick.
C5_Witness ==
    \E i \in Calls :
        /\ WaitsOnFull(hist[i])
        /\ hist[i].before[2] = MaxSequence
        /\ hist[i].spins > 0
        /\ OpensTick(hist[i])

\* The call's deciding sample is past the timestamp field and the call is
\* not rejected before packing: the sample is newer than last_timestamp, or
\* equal to it with the tick not full.
ReachesPacking(c) ==
    \/ Lt(c.before[1], c.now)
    \/ c.now = c.before[1] /\ ~Full(c.before)

\* No sample from call i to call j is older than the one before it.
NonDecreasing(i, j) ==
    \A k \in i..(j - 1) :
        /\ Le(hist[k].first, hist[k].now)
        /\ Le(hist[k].now, hist[k + 1].first)
        /\ Le(hist[k + 1].first, hist[k + 1].now)

Permanent ==
    \A i, j \in Calls :
        (i < j /\ hist[i].ret = Throw(FID_RESULT_TIMESTAMPOVERFLOW)
               /\ NonDecreasing(i, j))
            => /\ hist[j].ret = Throw(FID_RESULT_TIMESTAMPOVERFLOW)
               /\ hist[j].after = hist[i].before

\* C6 as claimed: every call whose sample exceeds 2^43-1 throws
\* TimestampOverflow and leaves the state as it was.
C6_Original ==
    \A i \in Calls :
        Lt(MaxTimestamp, hist[i].now) =>
            /\ hist[i].ret = Throw(FID_RESULT_TIMESTAMPOVERFLOW)
            /\ hist[i].after = hist[i].before

\* C6, amended: a next() call whose sample exceeds 2^43-1 and is newer than
\* last_timestamp (or equal to it with the tick not full) throws
\* TimestampOverflow and leaves (last_timestamp, sequence) as they were;
\* once a call has thrown TimestampOverflow, every later call throws it too
\* while the samples do not decrease.
C6_TimestampOverflow ==
    /\ \A i \in Calls :
        (Lt(MaxTimestamp, hist[i].now) /\ ReachesPacking(hist[i])) =>
            /\ hist[i].ret = Throw(FID_RESULT_TIMESTAMPOVERFLOW)
            /\ hist[i].after = hist[i].before
    /\ Permanent

\* After a success, two calls on later and later samples past the field
\* both threw TimestampOverflow, the state still that of the success.
C6_Witness ==
    /\ Len(hist) = 3
    /\ hist[1].ret.ok
    /\ hist[2].ret = Throw(FID_RESULT_TIMESTAMPOVERFLOW)
    /\ hist[3].ret = Throw(FID_RESULT_TIMESTAMPOVERFLOW)
    /\ Lt(hist[2].now, hist[3].now)
    /\ hist[3].after = hist[1].after

(***************************************************************************)
(* The codec: an identifier is constructed from three fields or from an    *)
(* integer, decomposed, encoded and decoded back.  codec records the       *)
(* inputs, which operations were applied (done) and what each gave.        *)
(***************************************************************************)
CodecTimestamps ==
    {Num(0), Num(1), GoldenTimestamp, MaxTimestamp, Pow2(TimestampBits),
     UInt64Max}

CodecSequences ==
    {Num(0), GoldenSequence, MaxSequence, Pow2(SequenceBits), UInt64Max}

CodecGenerators ==
    {Num(0), GoldenGenerator, Mask(GeneratorBits), Pow2(GeneratorBits),
     UInt64Max}

\* Integers given to FID::from_int: any 64-bit value is an identifier.
CodecIntegers ==
    {Num(0), GoldenInteger, UInt64Max, <<291, 17767, 35243, 52719>>}

Made(by, args, fid) ==
    [step |-> "made", by |-> by, args |-> args, fid |-> fid, done |-> {},
     fields |-> <<>>, bytes |-> Throw(0), text |-> Throw(0), int |-> Num(0),
     from_bytes |-> Throw(0), from_string |-> Throw(0), from_int |-> Num(0)]

CodecStart == codec = [step |-> "input"]

GenOff ==
    /\ builder = None
    /\ clock = Num(0)
    /\ GenIdle

Apply(op) ==
    /\ codec.step = "made"
    /\ codec.fid.ok
    /\ op \notin codec.done

\* FID(timestamp, sequence, generator)
CodecNew ==
    /\ codec.step = "input"
    /\ \E t \in CodecTimestamps, q \in CodecSequences, g \in CodecGenerators :
        codec' = Made("new", <<t, q, g>>, FID_new(t, q, g))
    /\ UNCHANGED <<genVars, concVars>>

\* FID::from_int(origin)
CodecFromInt ==
    /\ codec.step = "input"
    /\ \E origin \in CodecIntegers :
        codec' = Made("from_int", <<origin>>, Value(FID_from_int(origin)))
    /\ UNCHANGED <<genVars, concVars>>

\* timestamp(), sequence(), generator()
CodecUnpack ==
    /\ Apply("unpack")
    /\ codec' = [codec EXCEPT
            !.done = @ \cup {"unpack"},
            !.fields = <<FID_timestamp(codec.fid.val),
                         FID_sequence(codec.fid.val),
                         FID_generator(codec.fid.val)>>]
    /\ UNCHANGED <<genVars, concVars>>

CodecToBytes ==
    /\ Apply("to_bytes")
    /\ codec' = [codec EXCEPT !.done = @ \cup {"to_bytes"},
                              !.bytes = FID_to_bytes(codec.fid.val)]
    /\ UNCHANGED <<genVars, concVars>>

CodecToString ==
    /\ Apply("to_string")
    /\ codec' = [codec EXCEPT !.done = @ \cup {"to_string"},
                              !.text = FID_to_string(codec.fid.val)]
    /\ UNCHANGED <<genVars, concVars>>

CodecToInt ==
    /\ Apply("to_int")
    /\ codec' = [codec EXCEPT !.done = @ \cup {"to_int"},
                              !.int = FID_to_int(codec.fid.val)]
    /\ UNCHANGED <<genVars, concVars>>

\* FID::from_bytes of the bytes to_bytes() gave
CodecFromBytes ==
    /\ Apply("from_bytes")
    /\ "to_bytes" \in codec.done /\ codec.bytes.ok
    /\ codec' = [codec EXCEPT !.done = @ \cup {"from_bytes"},
                              !.from_bytes = FID_from_bytes(codec.bytes.val)]
    /\ UNCHANGED <<genVars, concVars>>

\* FID::from_string of the text to_string() gave
CodecFromString ==
    /\ Apply("from_string")
    /\ "to_string" \in codec.done /\ codec.text.ok
    /\ codec' = [codec EXCEPT !.done = @ \cup {"from_string"},
                              !.from_string = FID_from_string(codec.text.val)]
    /\ UNCHANGED <<genVars, concVars>>

\* FID::from_int of the integer to_int() gave
CodecBackFromInt ==
    /\ Apply("from_int")
    /\ "to_int" \in codec.done
    /\ codec' = [codec EXCEPT !.done = @ \cup {"from_int"},
                              !.from_int = FID_from_int(codec.int)]
    /\ UNCHANGED <<genVars, concVars>>

InitCodec == CodecStart /\ GenOff /\ ConcIdle

NextCodec ==
    \/ CodecNew
    \/ CodecFromInt
    \/ CodecUnpack
    \/ CodecToBytes
    \/ CodecToString
    \/ CodecToInt
    \/ CodecFromBytes
    \/ CodecFromString
    \/ CodecBackFromInt

SpecCodec == InitCodec /\ [][NextCodec]_vars

(***************************************************************************)
(* Properties of the codec.                                                *)
(***************************************************************************)
ByNew == codec.step = "made" /\ codec.by = "new"

Did(op) == codec.step = "made" /\ op \in codec.done

TimestampFits(t) == Lt(t, Pow2(TimestampBits))

SequenceFits(q) == Lt(q, Pow2(SequenceBits))

GeneratorFits(g) == Lt(g, Pow2(GeneratorBits))

InRange(args) ==
    TimestampFits(args[1]) /\ SequenceFits(args[2]) /\ GeneratorFits(args[3])

\* C7: for timestamp < 2^43, sequence < 2^11 and generator < 2^10 the
\* constructor succeeds and timestamp(), sequence() and generator() of the
\* identifier return the three values given.
C7_RoundTrip ==
    (ByNew /\ InRange(codec.args)) =>
        /\ codec.fid.ok
        /\ Did("unpack") => codec.fields = codec.args

\* The largest value of every field came back from the identifier.
C7_Witness ==
    /\ ByNew
    /\ codec.args = <<MaxTimestamp, MaxSequence, Mask(GeneratorBits)>>
    /\ Did("unpack")
    /\ codec.fields = codec.args

\* C8: the constructor throws when a field is out of range, with the error
\* of an out-of-range field (TimestampOverflow for timestamp >= 2^43,
\* SequenceOverflow for sequence >= 2^11, GeneratorOverflow for generator >=
\* 2^10), and succeeds exactly when the three fit; an identifier it gives
\* carries the values given, none cut to its field.
C8_Rejects ==
    ByNew =>
        /\ codec.fid.ok <=> InRange(codec.args)
        /\ ~codec.fid.ok =>
            \/ /\ codec.fid.code = FID_RESULT_TIMESTAMPOVERFLOW
               /\ ~TimestampFits(codec.args[1])
            \/ /\ codec.fid.code = FID_RESULT_SEQUENCEOVERFLOW
               /\ ~SequenceFits(codec.args[2])
            \/ /\ codec.fid.code = FID_RESULT_GENERATOROVERFLOW
               /\ ~GeneratorFits(codec.args[3])
        /\ (codec.fid.ok /\ Did("unpack")) => codec.fields = codec.args

\* Generator 2^10 beside fields that fit was refused as GeneratorOverflow.
C8_Witness ==
    /\ ByNew
    /\ codec.args = <<MaxTimestamp, MaxSequence, Pow2(GeneratorBits)>>
    /\ codec.fid = Throw(FID_RESULT_GENERATOROVERFLOW)

\* The number whose base-256 digits, most significant first, are bytes.
RECURSIVE BigEndian(_)
BigEndian(bytes) ==
    IF bytes = <<>> THEN Num(0)
    ELSE Add(MulSmall(BigEndian(SubSeq(bytes, 1, Len(bytes) - 1)), 256),
             Num(bytes[Len(bytes)]))

AlphabetChars == {Alphabet[v] : v \in 1..64}

\* C9: to_bytes gives the 8 bytes of the identifier, most significant
\* first, and from_bytes of them gives the identifier; to_string gives 11
\* characters of the URL-safe alphabet, the last one with its two low bits
\* zero, and from_string of them gives the identifier; from_bytes,
\* from_string and from_int of the encodings compare equal.
C9_Encodings ==
    (codec.step = "made" /\ codec.fid.ok) =>
        /\ Did("to_bytes") =>
            /\ codec.bytes.ok
            /\ Len(codec.bytes.val) = 8
            /\ \A i \in 1..8 : codec.bytes.val[i] \in 0..255
            /\ BigEndian(codec.bytes.val) = codec.fid.val
        /\ Did("from_bytes") => codec.from_bytes = Value(codec.fid.val)
        /\ Did("to_string") =>
            /\ codec.text.ok
            /\ Len(codec.text.val) = 11
            /\ \A i \in 1..11 : codec.text.val[i] \in AlphabetChars
            /\ SextetOf(codec.text.val[11]) % 4 = 0
        /\ Did("from_string") => codec.from_string = Value(codec.fid.val)
        /\ Did("from_int") => FID_eq(codec.from_int, codec.fid.val)
        /\ (Did("from_bytes") /\ Did("from_string") /\ Did("from_int")) =>
            /\ codec.from_bytes.ok /\ codec.from_string.ok
            /\ FID_eq(codec.from_bytes.val, codec.from_string.val)
            /\ FID_eq(codec.from_bytes.val, codec.from_int)
            /\ ~FID_ne(codec.from_string.val, codec.from_int)

\* The vectors of fid_test.
GoldenBytes == <<87, 234, 184, 240, 4, 32, 148, 160>>

GoldenString == <<"V", "-", "q", "4", "8", "A", "Q", "g", "l", "K", "A">>

\* The identifier of fid_test was encoded to the bytes and the text the
\* test expects, and decoded back from each.
C9_Witness ==
    /\ ByNew
    /\ codec.args = <<GoldenTimestamp, GoldenSequence, GoldenGenerator>>
    /\ codec.done = {"to_bytes", "to_string", "to_int",
                     "from_bytes", "from_string", "from_int"}
    /\ codec.bytes = Value(GoldenBytes)
    /\ codec.text = Value(GoldenString)
    /\ codec.from_bytes = codec.from_string
    /\ codec.from_string = Value(codec.from_int)

\* v * 2^k mod 2^64, by k doublings.
RECURSIVE TimesPow2(_, _)
TimesPow2(v, k) == IF k = 0 THEN v ELSE TimesPow2(Add(v, v), k - 1)

\* timestamp * 2^21 + sequence * 2^10 + generator
Numeric(args) ==
    Add(Add(TimesPow2(args[1], SequenceBits + GeneratorBits),
            TimesPow2(args[2], GeneratorBits)),
        args[3])

\* C10: for fields that fit, the identifier is the 64-bit number timestamp
\* * 2^21 + sequence * 2^10 + generator, and to_int() returns it; for
\* (3020801146913, 37, 160) it is 6335079166850929824.
C10_Numeric ==
    (ByNew /\ InRange(codec.args)) =>
        /\ codec.fid.ok
        /\ codec.fid.val = Numeric(codec.args)
        /\ Did("to_int") =>
            /\ codec.int = Numeric(codec.args)
            /\ codec.args = <<GoldenTimestamp, GoldenSequence, GoldenGenerator>>
                => codec.int = GoldenInteger

\* to_int() of the identifier of fid_test gave the integer the test expects.
C10_Witness ==
    /\ ByNew
    /\ codec.args = <<GoldenTimestamp, GoldenSequence, GoldenGenerator>>
    /\ Did("to_int")
    /\ codec.int = GoldenInteger

(***************************************************************************)
(* Several threads call next() on one FIDGenerator.  The native generator  *)
(* serializes the read-modify-write of (timestamp_last, sequence) by       *)
(* mutual exclusion; a call that waits on a full tick re-samples inside    *)
(* the critical section.  FIDGenerator::next itself holds no shared state: *)
(* the native call writes the identifier through a local of the call.      *)
(***************************************************************************)
Threads == {1, 2}

ConcClock == {Num(1000), Num(1001)}

ConcBuilders ==
    {Builder_sequence(
        Builder_timestamp_last(FIDGeneratorBuilder(GoldenGenerator), Num(1000)), q) :
        q \in {Num(0), Num(2046), MaxSequence}}
    \cup
    {Builder_not_wait_sequence(Builder_sequence(
        Builder_timestamp_last(FIDGeneratorBuilder(GoldenGenerator), Num(1000)), q)) :
        q \in {Num(0), Num(2046), MaxSequence}}

\* A faulty variant of the result variable: one shared by all calls.
ResultSlot_shared(t) == 1

\* The variable `::FID result` of thread t's call: a local, one per call in
\* flight.
ResultSlot(t) == t

ThreadIdle ==
    [pc |-> "idle", now |-> Num(0), seen |-> None, waited |-> FALSE,
     err |-> 0, begun |-> 0]

InitConc ==
    /\ builder \in ConcBuilders
    /\ generator = Builder_build(builder).val
    /\ clock \in ConcClock
    /\ pc = "idle" /\ pending = None /\ ncalls = 0 /\ tick = 0 /\ hist = <<>>
    /\ CodecIdle
    /\ ExtIdle
    /\ thr = [t \in Threads |-> ThreadIdle]
    /\ lock = 0
    /\ slot = [t \in Threads |-> Num(0)]
    /\ log = <<>>
    /\ returned = <<>>

genRest == <<builder, pc, pending, ncalls, tick, hist, codec, extVars>>

\* Thread t calls next() and enters the native critical section.
Acquire(t) ==
    /\ thr[t].pc = "idle"
    /\ thr[t].begun < MaxThreadCalls
    /\ lock = 0
    /\ lock' = t
    /\ thr' = [thr EXCEPT ![t].pc = "read", ![t].begun = @ + 1,
                          ![t].waited = FALSE]
    /\ UNCHANGED <<generator, clock, slot, log, returned, genRest>>

\* It samples the clock and reads the generator's state.
Sample(t) ==
    /\ thr[t].pc = "read"
    /\ thr' = [thr EXCEPT ![t].pc = "write", ![t].now = clock,
                          ![t].seen = generator]
    /\ UNCHANGED <<generator, clock, lock, slot, log, returned, genRest>>

\* It writes the state and the identifier and leaves the critical section,
\* or goes back to sample again on a full tick.
Commit(t) ==
    /\ thr[t].pc = "write"
    /\ LET r == IF thr[t].waited
                THEN flowerid_generator_next_resample(thr[t].seen, thr[t].now)
                ELSE flowerid_generator_next(thr[t].seen, thr[t].now)
       IN  IF r.blocked
           THEN /\ thr' = [thr EXCEPT ![t].pc = "read", ![t].waited = TRUE]
                /\ UNCHANGED <<generator, lock, slot, log>>
           ELSE /\ generator' = r.gen
                /\ slot' = IF r.ret = FID_RESULT_OK
                           THEN [slot EXCEPT ![ResultSlot(t)] = r.out]
                           ELSE slot
                /\ lock' = 0
                /\ thr' = [thr EXCEPT ![t].pc = "return", ![t].err = r.ret]
                /\ log' = Append(log,
                        [thread |-> t, call |-> thr[t].begun,
                         now |-> thr[t].now,
                         before |-> StateOf(thr[t].seen),
                         found |-> StateOf(generator),
                         after |-> StateOf(r.gen),
                         ret |-> FIDGenerator_next(r)])
    /\ UNCHANGED <<clock, returned, genRest>>

\* FIDGenerator::next returns the identifier or throws.
Finish(t) ==
    /\ thr[t].pc = "return"
    /\ returned' = Append(returned,
            [thread |-> t, call |-> thr[t].begun,
             ret |-> FIDGenerator_next(
                        [ret |-> thr[t].err, out |-> slot[ResultSlot(t)]])])
    /\ thr' = [thr EXCEPT ![t].pc = "idle"]
    /\ UNCHANGED <<generator, clock, lock, slot, log, genRest>>

ConcClockMoves ==
    /\ clock' \in ConcClock \ {clock}
    /\ UNCHANGED <<generator, lock, slot, log, returned, thr, genRest>>

NextConc ==
    \/ \E t \in Threads : Acquire(t)
    \/ \E t \in Threads : Sample(t)
    \/ \E t \in Threads : Commit(t)
    \/ \E t \in Threads : Finish(t)
    \/ ConcClockMoves

SpecConc == InitConc /\ [][NextConc]_vars

\* C2: concurrent next() calls on one generator read and write
\* (last_timestamp, sequence) one call at a time: every call finds the state
\* the call before it left (so no two calls observe the same state and both
\* advance it), no two successful calls return the same identifier, and
\* what the calls return is what they return run one after another in the
\* order they left the critical section.
C2_Serialized ==
    /\ \A k \in 1..Len(log) :
        /\ log[k].before = log[k].found
        /\ log[k].before = IF k = 1
                           THEN <<builder.timestamp_last, builder.sequence>>
                           ELSE log[k - 1].after
    /\ \A j, k \in 1..Len(log) :
        (j < k /\ log[j].before = log[k].before)
            => (log[j].after = log[j].before /\ ~log[j].ret.ok)
    /\ \A i, j \in 1..Len(returned) :
        (i # j /\ returned[i].ret.ok /\ returned[j].ret.ok)
            => FID_ne(returned[i].ret.val, returned[j].ret.val)
    /\ \A i \in 1..Len(returned) :
        \E k \in 1..Len(log) :
            /\ log[k].thread = returned[i].thread
            /\ log[k].call = returned[i].call
            /\ log[k].ret = returned[i].ret

\* Both threads were inside next() at once, each past the critical section
\* with an identifier of the same tick not yet returned; then both returned.
C2_Witness ==
    /\ Len(returned) = 2
    /\ returned[1].thread # returned[2].thread
    /\ returned[1].ret.ok /\ returned[2].ret.ok
    /\ log[1].thread = returned[2].thread
    /\ FID_timestamp(returned[1].ret.val) = FID_timestamp(returned[2].ret.val)
    /\ FID_lt(returned[2].ret.val, returned[1].ret.val)

(***************************************************************************)
(* A FIDGeneratorBuilder under configuration: setters in any order, and    *)
(* build() at any point.  stage.given is what the caller gave: the         *)
(* generator id, then the value of the latest call of each setter.         *)
(***************************************************************************)
StageGenerators == {Num(0), GoldenGenerator, Mask(GeneratorBits), Pow2(GeneratorBits), UInt64Max}

StageOffsets == {0, 1, DefaultTimestampOffset}

StageTimestamps == {Num(0), Num(1000), MaxTimestamp, Pow2(TimestampBits)}

StageSequences == {Num(0), Num(37), MaxSequence, Pow2(SequenceBits)}

\* The defaults as the specification lists them.
Defaults(g) ==
    [generator |-> g, timestamp_offset |-> -1483228800,
     timestamp_last |-> Num(0), sequence |-> Num(0),
     wait_sequence |-> TRUE, timestamp_in_seconds |-> FALSE]

stageRest == <<genVars, codec, threadVars, parse, cmp, own, pair>>

InitStage ==
    /\ \E g \in StageGenerators :
        stage = [step |-> "staging", b |-> FIDGeneratorBuilder(g),
                 given |-> Defaults(g), nset |-> 0, made |-> None,
                 from |-> None]
    /\ GenOff /\ CodecIdle /\ ThreadsIdle
    /\ parse = Off /\ cmp = Off /\ own = Off /\ pair = Off

\* A setter call may follow.
CanStage == stage.step = "staging" /\ stage.nset < MaxSetterCalls

\* The builder after a setter call, and what the caller gave.
Staged(b, given) == [stage EXCEPT !.b = b, !.given = given, !.nset = @ + 1]

StageTimestampOffset ==
    /\ CanStage
    /\ \E x \in StageOffsets :
        stage' = Staged(Builder_timestamp_offset(stage.b, x),
                        [stage.given EXCEPT !.timestamp_offset = x])
    /\ UNCHANGED stageRest

StageTimestampLast ==
    /\ CanStage
    /\ \E x \in StageTimestamps :
        stage' = Staged(Builder_timestamp_last(stage.b, x),
                        [stage.given EXCEPT !.timestamp_last = x])
    /\ UNCHANGED stageRest

StageSequence ==
    /\ CanStage
    /\ \E x \in StageSequences :
        stage' = Staged(Builder_sequence(stage.b, x),
                        [stage.given EXCEPT !.sequence = x])
    /\ UNCHANGED stageRest

StageWaitSequence ==
    /\ CanStage
    /\ stage' = Staged(Builder_wait_sequence(stage.b),
                       [stage.given EXCEPT !.wait_sequence = TRUE])
    /\ UNCHANGED stageRest

StageNotWaitSequence ==
    /\ CanStage
    /\ stage' = Staged(Builder_not_wait_sequence(stage.b),
                       [stage.given EXCEPT !.wait_sequence = FALSE])
    /\ UNCHANGED stageRest

StageTimestampInSeconds ==
    /\ CanStage
    /\ stage' = Staged(Builder_timestamp_in_seconds(stage.b),
                       [stage.given EXCEPT !.timestamp_in_seconds = TRUE])
    /\ UNCHANGED stageRest

StageTimestampInMillisecond ==
    /\ CanStage
    /\ stage' = Staged(Builder_timestamp_in_millisecond(stage.b),
                       [stage.given EXCEPT !.timestamp_in_seconds = FALSE])
    /\ UNCHANGED stageRest

\* build(): a FIDGenerator or an Error; the builder is const.
StageBuild ==
    /\ stage.step = "staging"
    /\ stage' = [stage EXCEPT !.made = Builder_build(stage.b),
                              !.from = stage.given]
    /\ UNCHANGED stageRest

NextStage ==
    \/ StageTimestampOffset
    \/ StageTimestampLast
    \/ StageSequence
    \/ StageWaitSequence
    \/ StageNotWaitSequence
    \/ StageTimestampInSeconds
    \/ StageTimestampInMillisecond
    \/ StageBuild

SpecStage == InitStage /\ [][NextStage]_vars

StageBuilt == stage.step = "staging" /\ stage.made # None

\* C11: build() throws GeneratorOverflow exactly when the generator id is
\* >= 1024, and then there is no generator; for a generator id < 1024 it
\* succeeds whatever the other five fields are, and the generator starts
\* from exactly the configured last_timestamp and sequence.
C11_Build ==
    StageBuilt =>
        IF Lt(stage.from.generator, Num(1024))
        THEN /\ stage.made.ok
             /\ StateOf(stage.made.val)
                    = <<stage.from.timestamp_last, stage.from.sequence>>
             /\ stage.made.val.generator = stage.from.generator
        ELSE stage.made = Throw(FID_RESULT_GENERATOROVERFLOW)

\* A generator was built for id 1023 from fields no identifier could hold,
\* in seconds, not waiting, and seeded with them.
C11_Witness ==
    /\ StageBuilt
    /\ stage.made.ok
    /\ stage.from.generator = Mask(GeneratorBits)
    /\ stage.from.sequence = Pow2(SequenceBits)
    /\ stage.from.timestamp_in_seconds
    /\ StateOf(stage.made.val) = <<Num(0), Pow2(SequenceBits)>>

\* C12: a new builder holds the generator id and the five defaults; after
\* any setter calls every field holds the value its latest setter call
\* gave, or its default, the other fields untouched; build() leaves the
\* builder as it was.
C12_Staging ==
    stage.step = "staging" =>
        /\ stage.b.generator = stage.given.generator
        /\ stage.b.timestamp_offset = stage.given.timestamp_offset
        /\ stage.b.timestamp_last = stage.given.timestamp_last
        /\ stage.b.sequence = stage.given.sequence
        /\ stage.b.wait_sequence = stage.given.wait_sequence
        /\ stage.b.timestamp_in_seconds = stage.given.timestamp_in_seconds
        /\ DOMAIN stage.b = DOMAIN stage.given

\* Three setters changed three fields after a build(), the others still at
\* their defaults.
C12_Witness ==
    /\ StageBuilt
    /\ stage.nset = 3
    /\ stage.from = Defaults(GoldenGenerator)
    /\ stage.b = [Defaults(GoldenGenerator) EXCEPT
                    !.timestamp_last = Num(1000), !.sequence = Num(37),
                    !.wait_sequence = FALSE]

(***************************************************************************)
(* The decoders on inputs of any length and content.  FID::from_bytes      *)
(* takes a std::array<uint8_t, 8>, so a byte string of another length      *)
(* reaches only the native flowerid_from_bytes; FID::from_string takes any *)
(* std::string.                                                            *)
(***************************************************************************)
Replace(text, i, ch) == [text EXCEPT ![i] = ch]

ParseTextBases ==
    {<<"V", "-", "q", "4", "8", "A", "Q", "g", "l", "K", "A">>,
     [i \in 1..11 |-> "A"],
     [i \in 1..11 |-> "_"]}

\* Characters outside the URL-safe alphabet, those of standard Base64 among
\* them.
ForeignChars == {"+", "/", "=", " "}

\* The characters with the upper four bits of ch and any padding bits.
PaddingsOf(ch) == {Alphabet[(SextetOf(ch) \div 4) * 4 + p + 1] : p \in 0..3}

ParseTexts ==
    UNION {
        {base, SubSeq(base, 1, 10), Append(base, "A"), <<>>,
         Append(base, NUL), Append(Append(base, NUL), "A"),
         Replace(base, 6, NUL)}
        \cup {Replace(base, i, ch) : i \in {1, 6, 11}, ch \in ForeignChars}
        \cup {Replace(base, 11, ch) : ch \in PaddingsOf(base[11])}
        : base \in ParseTextBases}

ParseByteBases ==
    {<<87, 234, 184, 240, 4, 32, 148, 160>>,
     [i \in 1..8 |-> 0],
     [i \in 1..8 |-> 255]}

ParseBytes ==
    UNION {{base, SubSeq(base, 1, 7), Append(base, 0), <<>>} :
           base \in ParseByteBases}

parseRest == <<genVars, codec, threadVars, cmp, stage, own, pair>>

InitParse ==
    /\ parse = [step |-> "input"]
    /\ GenOff /\ CodecIdle /\ ThreadsIdle
    /\ cmp = Off /\ stage = Off /\ own = Off /\ pair = Off

Given(kind, input) ==
    [step |-> "given", kind |-> kind, input |-> input, n |-> 0,
     fid |-> None, native |-> None, text |-> None]

ParseGiveBytes ==
    /\ parse.step = "input"
    /\ \E input \in ParseBytes : parse' = Given("bytes", input)
    /\ UNCHANGED parseRest

ParseGiveText ==
    /\ parse.step = "input"
    /\ \E input \in ParseTexts : parse' = Given("text", input)
    /\ UNCHANGED parseRest

CanParse(kind) ==
    /\ parse.step = "given"
    /\ parse.kind = kind
    /\ parse.n < MaxParses

\* flowerid_from_bytes(&fid, buffer, buffer_size), called from C
ParseNativeFromBytes ==
    /\ CanParse("bytes")
    /\ parse' = [parse EXCEPT
            !.n = @ + 1,
            !.native = flowerid_from_bytes(parse.input, Len(parse.input))]
    /\ UNCHANGED parseRest

\* FID::from_bytes(origin)
ParseFromBytes ==
    /\ CanParse("bytes")
    /\ Len(parse.input) = 8
    /\ parse' = [parse EXCEPT !.n = @ + 1,
                              !.fid = FID_from_bytes(parse.input)]
    /\ UNCHANGED parseRest

\* FID::from_string(origin)
ParseFromString ==
    /\ CanParse("text")
    /\ parse' = [parse EXCEPT !.n = @ + 1,
                              !.fid = FID_from_string(parse.input)]
    /\ UNCHANGED parseRest

\* to_string() of the identifier from_string returned
ParseToString ==
    /\ CanParse("text")
    /\ parse.fid # None /\ parse.fid.ok
    /\ parse' = [parse EXCEPT !.n = @ + 1,
                              !.text = FID_to_string(parse.fid.val)]
    /\ UNCHANGED parseRest

NextParse ==
    \/ ParseGiveBytes
    \/ ParseGiveText
    \/ ParseNativeFromBytes
    \/ ParseFromBytes
    \/ ParseFromString
    \/ ParseToString

SpecParse == InitParse /\ [][NextParse]_vars

(***************************************************************************)
(* Properties of the decoders.                                             *)
(***************************************************************************)
ParsedText == parse.step = "given" /\ parse.kind = "text" /\ parse.fid # None

ParsedNative == parse.step = "given" /\ parse.native # None

OverAlphabet(text) == \A i \in 1..Len(text) : text[i] \in AlphabetChars

\* C13 as claimed: from_bytes fails with WrongSliceSize on every input
\* whose length is not 8, from_string fails with Base64DecodeError on every
\* string whose length is not 11 or that holds a character outside the
\* URL-safe alphabet, and a failing call yields no identifier.
C13_Original ==
    /\ (ParsedNative /\ Len(parse.input) # 8) =>
        parse.native = [ret |-> FID_RESULT_WRONGSLICESIZE, out |-> Unset]
    /\ (ParsedText /\ (Len(parse.input) # 11 \/ ~OverAlphabet(parse.input))) =>
        parse.fid = Throw(FID_RESULT_BASE64DECODEERROR)

\* What holds of C13: the same, for the strings that hold no NUL character.
C13_Rejects ==
    /\ (ParsedNative /\ Len(parse.input) # 8) =>
        parse.native = [ret |-> FID_RESULT_WRONGSLICESIZE, out |-> Unset]
    /\ (ParsedText /\ (\A i \in 1..Len(parse.input) : parse.input[i] # NUL)
                   /\ (Len(parse.input) # 11 \/ ~OverAlphabet(parse.input))) =>
        parse.fid = Throw(FID_RESULT_BASE64DECODEERROR)

\* A string of 13 characters, one of them outside the alphabet, was decoded
\* to the identifier of its first 11.
C13_Witness ==
    /\ ParsedText
    /\ Len(parse.input) = 13
    /\ ~OverAlphabet(parse.input)
    /\ parse.fid = Value(GoldenInteger)

\* Bit k (0 = the most significant) of a 64-bit value.
BitOf(v, k) == (v[k \div 16 + 1] \div 2^(15 - (k % 16))) % 2

\* The text with the two padding bits of its last character cleared.
ClearPadding(text) ==
    [text EXCEPT ![11] = Alphabet[(SextetOf(@) \div 4) * 4 + 1]]

\* C17: from_string accepts every 11-character string over the URL-safe
\* alphabet, whatever the two padding bits of its last character: the
\* identifier is made of the first 64 bits the characters carry and the
\* padding bits are dropped, so strings that differ in them alone decode to
\* one identifier (the one whose text has them zero).
C17_Padding ==
    (ParsedText /\ Len(parse.input) = 11 /\ OverAlphabet(parse.input)) =>
        /\ parse.fid.ok
        /\ \A k \in 0..63 :
            BitOf(parse.fid.val, k)
                = (SextetOf(parse.input[k \div 6 + 1]) \div 2^(5 - (k % 6))) % 2
        /\ parse.fid = FID_from_string(ClearPadding(parse.input))
        /\ parse.text # None => parse.text = Value(ClearPadding(parse.input))

\* A string whose last character carries padding bits 11 decoded to the
\* golden identifier, whose own text ends in another character.
C17_Witness ==
    /\ ParsedText
    /\ parse.input = <<"V", "-", "q", "4", "8", "A", "Q", "g", "l", "K", "D">>
    /\ parse.fid = Value(GoldenInteger)
    /\ parse.text = Value(GoldenString)

(***************************************************************************)
(* Two identifiers and the six comparisons of them.                        *)
(***************************************************************************)
CmpTimestamps == {Num(0), Num(1), GoldenTimestamp, MaxTimestamp}

CmpSequences == {Num(0), GoldenSequence, MaxSequence}

CmpGenerators == {Num(0), GoldenGenerator, Mask(GeneratorBits)}

\* Integers given to FID::from_int, as test.cpp compares the golden
\* identifier with its neighbours.
CmpIntegers ==
    {Num(0), UInt64Max, Add(GoldenInteger, Num(1)), Add(GoldenInteger, UInt64Max),
     Pow2(63), Mask(63)}

cmpRest == <<genVars, codec, threadVars, parse, stage, own, pair>>

InitCmp ==
    /\ cmp = [step |-> "input", ids |-> <<>>]
    /\ GenOff /\ CodecIdle /\ ThreadsIdle
    /\ parse = Off /\ stage = Off /\ own = Off /\ pair = Off

\* FID(timestamp, sequence, generator) with fields in range
CmpNew ==
    /\ cmp.step = "input"
    /\ Len(cmp.ids) < 2
    /\ \E t \in CmpTimestamps, q \in CmpSequences, g \in CmpGenerators :
        cmp' = [cmp EXCEPT !.ids = Append(@,
                    [by |-> "new", args |-> <<t, q, g>>,
                     fid |-> FID_new(t, q, g).val])]
    /\ UNCHANGED cmpRest

\* FID::from_int(origin)
CmpFromInt ==
    /\ cmp.step = "input"
    /\ Len(cmp.ids) < 2
    /\ \E origin \in CmpIntegers :
        cmp' = [cmp EXCEPT !.ids = Append(@,
                    [by |-> "from_int", args |-> <<origin>>,
                     fid |-> FID_from_int(origin)])]
    /\ UNCHANGED cmpRest

\* left > right, <, >=, <=, ==, !=
CmpCompare ==
    /\ cmp.step = "input"
    /\ Len(cmp.ids) = 2
    /\ LET left == cmp.ids[1].fid
           right == cmp.ids[2].fid
       IN  cmp' = [step |-> "compared", ids |-> cmp.ids,
                   gt |-> FID_gt(left, right), lt |-> FID_lt(left, right),
                   ge |-> FID_ge(left, right), le |-> FID_le(left, right),
                   eq |-> FID_eq(left, right), ne |-> FID_ne(left, right)]
    /\ UNCHANGED cmpRest

NextCmp ==
    \/ CmpNew
    \/ CmpFromInt
    \/ CmpCompare

SpecCmp == InitCmp /\ [][NextCmp]_vars

\* a is below b as an unsigned 64-bit value: at the first bit where they
\* differ, a has 0.
UnsignedBelow(a, b) ==
    \E k \in 0..63 :
        /\ BitOf(a, k) < BitOf(b, k)
        /\ \A j \in 0..(k - 1) : BitOf(a, j) = BitOf(b, j)

\* The triple x is lexicographically below the triple y.
LexBelow(x, y) ==
    \/ UnsignedBelow(x[1], y[1])
    \/ x[1] = y[1] /\ UnsignedBelow(x[2], y[2])
    \/ x[1] = y[1] /\ x[2] = y[2] /\ UnsignedBelow(x[3], y[3])

FieldsOf(fid) == <<FID_timestamp(fid), FID_sequence(fid), FID_generator(fid)>>

\* C14: the six comparisons are the unsigned comparisons of the packed
\* 64-bit values; for identifiers made from in-range fields the order is
\* the lexicographic order of (timestamp, sequence, generator), and two
\* identifiers are equal exactly when their three fields are.
C14_Order ==
    cmp.step = "compared" =>
        LET a == cmp.ids[1]
            b == cmp.ids[2]
        IN  /\ cmp.lt = UnsignedBelow(a.fid, b.fid)
            /\ cmp.gt = UnsignedBelow(b.fid, a.fid)
            /\ cmp.le = ~UnsignedBelow(b.fid, a.fid)
            /\ cmp.ge = ~UnsignedBelow(a.fid, b.fid)
            /\ cmp.eq = (\A k \in 0..63 : BitOf(a.fid, k) = BitOf(b.fid, k))
            /\ cmp.ne = ~cmp.eq
            /\ cmp.eq = (FieldsOf(a.fid) = FieldsOf(b.fid))
            /\ (a.by = "new" /\ b.by = "new") =>
                /\ cmp.lt = LexBelow(a.args, b.args)
                /\ cmp.eq = (a.args = b.args)

\* An identifier with the larger generator and sequence but the smaller
\* timestamp is below one whose packed value has the top bit set.
C14_Witness ==
    /\ cmp.step = "compared"
    /\ cmp.ids[1].by = "new" /\ cmp.ids[2].by = "new"
    /\ cmp.ids[1].args = <<GoldenTimestamp, MaxSequence, Mask(GeneratorBits)>>
    /\ cmp.ids[2].args = <<MaxTimestamp, Num(0), Num(0)>>
    /\ cmp.lt /\ cmp.le /\ cmp.ne /\ ~cmp.gt /\ ~cmp.ge /\ ~cmp.eq

(***************************************************************************)
(* Generators in their default initial state or inside a tick, on a clock  *)
(* that starts at zero: every field is in range here, and the first        *)
(* sample may equal the initial last_timestamp.                            *)
(***************************************************************************)
FreshClock == {Num(0), Num(1), Num(1000), Num(1001)}

FreshBuilders ==
    LET staged == {FIDGeneratorBuilder(GoldenGenerator),
                   Builder_sequence(Builder_timestamp_last(
                       FIDGeneratorBuilder(GoldenGenerator), Num(1000)), Num(2046))}
    IN  staged \cup {Builder_not_wait_sequence(b) : b \in staged}

InitFresh ==
    /\ builder \in FreshBuilders
    /\ clock \in FreshClock
    /\ GenIdle
    /\ CodecIdle
    /\ ConcIdle

FreshClockMoves ==
    /\ clock' \in FreshClock \ {clock}
    /\ UNCHANGED <<builder, generator, pc, pending, ncalls, tick, hist, codec,
                   concVars>>

NextFresh ==
    \/ Build
    \/ Call(MaxFreshCalls)
    \/ Resample
    \/ FreshClockMoves

SpecFresh == InitFresh /\ [][NextFresh]_vars

\* The identifier a successful call returned is the state it left, packed
\* with the configured generator id, and the state is the transition's.
PacksState(c) ==
    /\ FID_timestamp(c.ret.val) = c.after[1]
    /\ FID_sequence(c.ret.val) = c.after[2]
    /\ FID_generator(c.ret.val) = builder.generator
    /\ Lt(c.before[1], c.now) => OpensTick(c)
    /\ (c.now = c.before[1] /\ Lt(c.before[2], MaxSequence))
        => StaysInTick(c, c.before)

\* hist[1] is the first call of a generator built with the default
\* last_timestamp and sequence, and it succeeded.
FirstOfDefault ==
    /\ ncalls >= 1
    /\ ncalls = Len(hist)
    /\ builder.timestamp_last = Num(0) /\ builder.sequence = Num(0)
    /\ hist[1].ret.ok

\* C15 as claimed: every successful next() returns the state after the
\* transition, packed, and the first next() of a generator in the default
\* initial state returns sequence 0.
C15_Original ==
    /\ \A i \in Calls : hist[i].ret.ok => PacksState(hist[i])
    /\ FirstOfDefault => FID_sequence(IdOf(1)) = Num(0)

\* C15, amended: every successful next() returns the identifier packed from
\* the state after the transition: timestamp now and sequence 0 when
\* now > last_timestamp, the state becoming (now, 0); the timestamp kept and
\* the sequence one more when now == last_timestamp and sequence < 2047;
\* the generator field the configured id in both.  The first next() of a
\* generator in the default initial state returns sequence 0 when its
\* sample is above 0, and sequence 1 of tick 0 when its sample is 0.
C15_Next ==
    /\ \A i \in Calls : hist[i].ret.ok => PacksState(hist[i])
    /\ FirstOfDefault =>
        IF Lt(Num(0), hist[1].now)
        THEN FID_sequence(IdOf(1)) = Num(0)
        ELSE FID_sequence(IdOf(1)) = Num(1) /\ FID_timestamp(IdOf(1)) = Num(0)

\* The first call of a default generator returned sequence 0 of its tick,
\* the second sequence 1 of the same tick, the third opened the next tick.
C15_Witness ==
    /\ FirstOfDefault
    /\ Len(hist) = 3
    /\ hist[1].after = <<Num(1000), Num(0)>>
    /\ hist[2].ret.ok /\ hist[2].after = <<Num(1000), Num(1)>>
    /\ hist[3].ret.ok /\ hist[3].after = <<Num(1001), Num(0)>>
    /\ FID_generator(IdOf(3)) = GoldenGenerator

(***************************************************************************)
(* More properties of the generator of Spec, whose builders hold initial   *)
(* states in and out of range.                                             *)
(***************************************************************************)
\* Call i threw SequenceOverflow, and no call from i + 1 to j - 1 sampled
\* the clock above the last_timestamp call i found.
SameTickSince(i, j) ==
    /\ hist[i].ret = Throw(FID_RESULT_SEQUENCEOVERFLOW)
    /\ \A k \in (i + 1)..(j - 1) : ~Lt(hist[i].before[1], hist[k].now)

\* What C16 says of a call that threw SequenceOverflow: nothing waited and
\* nothing changed.
Immediate(c) ==
    /\ ~generator.wait_sequence
    /\ ~c.waited /\ c.spins = 0
    /\ c.now = c.first
    /\ c.after = c.before

\* C16 as claimed: the first call sampling the clock above last_timestamp
\* after a SequenceOverflow succeeds with that timestamp and sequence 0.
C16_Original ==
    \A i, j \in Calls :
        (i < j /\ SameTickSince(i, j) /\ Lt(hist[i].before[1], hist[j].now))
            => OpensTick(hist[j])

\* C16, amended: without wait_sequence a next() call that throws
\* SequenceOverflow returns at once and leaves (last_timestamp, sequence)
\* as they were; later calls sampling the same tick throw SequenceOverflow
\* again, the state still unchanged, and the first call whose sample is
\* above last_timestamp succeeds with that timestamp and sequence 0 if the
\* sample is at most 2^43-1, and throws TimestampOverflow otherwise.
C16_SequenceOverflow ==
    /\ \A i \in Calls :
        hist[i].ret = Throw(FID_RESULT_SEQUENCEOVERFLOW) => Immediate(hist[i])
    /\ \A i, j \in Calls :
        (i < j /\ SameTickSince(i, j)) =>
            /\ hist[j].before = hist[i].before
            /\ hist[j].now = hist[i].now =>
                /\ hist[j].ret = Throw(FID_RESULT_SEQUENCEOVERFLOW)
                /\ hist[j].after = hist[i].before
            /\ Lt(hist[i].before[1], hist[j].now) =>
                IF Le(hist[j].now, MaxTimestamp)
                THEN OpensTick(hist[j])
                ELSE /\ hist[j].ret = Throw(FID_RESULT_TIMESTAMPOVERFLOW)
                     /\ hist[j].after = hist[i].before

\* Two calls in a full tick threw SequenceOverflow and the third, on a
\* newer sample, opened its tick.
C16_Witness ==
    /\ Len(hist) = 3
    /\ hist[1].ret = Throw(FID_RESULT_SEQUENCEOVERFLOW)
    /\ hist[2].ret = Throw(FID_RESULT_SEQUENCEOVERFLOW)
    /\ hist[2].now = hist[1].now
    /\ OpensTick(hist[3])

\* C18: whatever initial last_timestamp and sequence an accepted builder
\* held, above the field widths included, every identifier a successful
\* next() returns carries the state the call left, whole: timestamp
\* <= 2^43-1, sequence <= 2047, the configured generator id, and packed
\* value timestamp * 2^21 + sequence * 2^10 + generator, no field cut or
\* running into its neighbour.
C18_FieldsFit ==
    \A i \in Calls :
        hist[i].ret.ok =>
            LET c == hist[i]
                id == c.ret.val
            IN  /\ Le(c.after[1], MaxTimestamp)
                /\ Le(c.after[2], MaxSequence)
                /\ Lt(builder.generator, Pow2(GeneratorBits))
                /\ FID_timestamp(id) = c.after[1]
                /\ FID_sequence(id) = c.after[2]
                /\ FID_generator(id) = builder.generator
                /\ FID_to_int(id)
                    = Add(Add(TimesPow2(c.after[1], 21), TimesPow2(c.after[2], 10)),
                          builder.generator)

\* The first call of a generator built with sequence 2048 failed, the state
\* untouched, and its second call returned sequence 0 of tick 2^43-1.
C18_Witness ==
    /\ Len(hist) >= 2
    /\ builder.sequence = Pow2(SequenceBits)
    /\ ~hist[1].ret.ok
    /\ hist[1].before[2] = Pow2(SequenceBits)
    /\ hist[2].ret.ok
    /\ FID_sequence(IdOf(2)) = Num(0)
    /\ FID_timestamp(IdOf(2)) = MaxTimestamp

(***************************************************************************)
(* Ownership of the native generator.  own.objs gives, for every           *)
(* FIDGenerator variable of the program, NoObject while it holds no        *)
(* object, and else the _generator pointer of its object: NullHandle or a  *)
(* handle 1, 2, ... in the order flowerid_generator_new_ex handed them     *)
(* out.  own.rel counts, per handle, the flowerid_generator_release calls  *)
(* that received it.  A constructor that throws leaves no object, so no    *)
(* destructor runs for it.                                                 *)
(***************************************************************************)
Objects == {1, 2, 3}

NoObject == -1

NullHandle == 0

\* flowerid_generator_release(h): a null pointer is no handle.
flowerid_generator_release(rel, h) ==
    IF h = NullHandle THEN rel ELSE [rel EXCEPT ![h] = @ + 1]

\* FIDGenerator::FIDGenerator(FIDGenerator &&origin)
FIDGenerator_move(objs, this, origin) ==
    LET taken == [objs EXCEPT ![this] = objs[origin]]
    IN  [taken EXCEPT ![origin] = NullHandle]

\* A faulty variant of move assignment: origin keeps its pointer.
FIDGenerator_move_assign_keep(own_, this, origin) ==
    [own_ EXCEPT !.rel = flowerid_generator_release(own_.rel, own_.objs[this]),
                 !.objs = [@ EXCEPT ![this] = own_.objs[origin]]]

\* FIDGenerator::operator=(FIDGenerator &&origin): release this->_generator,
\* take origin's, reset origin's; origin may be *this.
FIDGenerator_move_assign(own_, this, origin) ==
    LET released == flowerid_generator_release(own_.rel, own_.objs[this])
        taken == [own_.objs EXCEPT ![this] = own_.objs[origin]]
    IN  [own_ EXCEPT !.rel = released,
                     !.objs = [taken EXCEPT ![origin] = NullHandle]]

\* FIDGenerator::~FIDGenerator()
FIDGenerator_destroy(own_, this) ==
    [own_ EXCEPT !.rel = flowerid_generator_release(own_.rel, own_.objs[this]),
                 !.objs = [@ EXCEPT ![this] = NoObject]]

OwnBuilders ==
    {FIDGeneratorBuilder(GoldenGenerator), FIDGeneratorBuilder(Pow2(GeneratorBits))}

ownRest == <<genVars, codec, threadVars, parse, cmp, stage, pair>>

InitOwn ==
    /\ own = [step |-> "run", objs |-> [o \in Objects |-> NoObject],
              rel |-> <<>>, thrown |-> FALSE, self |-> FALSE]
    /\ GenOff /\ CodecIdle /\ ThreadsIdle
    /\ parse = Off /\ cmp = Off /\ stage = Off /\ pair = Off

Alive(o) == own.step = "run" /\ own.objs[o] # NoObject

\* FIDGenerator(cfg): the constructor obtains a handle, or throws.
OwnConstruct ==
    /\ own.step = "run"
    /\ Len(own.rel) < MaxHandles
    /\ \E o \in Objects, cfg \in OwnBuilders :
        /\ ~Alive(o)
        /\ IF FIDGenerator_new(cfg).ok
           THEN own' = [own EXCEPT !.rel = Append(@, 0),
                                   !.objs = [@ EXCEPT ![o] = Len(own.rel) + 1]]
           ELSE own' = [own EXCEPT !.thrown = TRUE]
    /\ UNCHANGED ownRest

\* FIDGenerator o(std::move(origin))
OwnMoveConstruct ==
    /\ \E o, origin \in Objects :
        /\ ~Alive(o) /\ Alive(origin)
        /\ own' = [own EXCEPT !.objs = FIDGenerator_move(@, o, origin)]
    /\ UNCHANGED ownRest

\* o = std::move(origin), origin another object or o itself
OwnMoveAssign ==
    /\ \E o, origin \in Objects :
        /\ Alive(o) /\ Alive(origin)
        /\ own' = [FIDGenerator_move_assign(own, o, origin) EXCEPT
                        !.self = @ \/ (o = origin /\ own.objs[o] # NullHandle)]
    /\ UNCHANGED ownRest

\* o goes out of scope
OwnDestroy ==
    /\ \E o \in Objects :
        /\ Alive(o)
        /\ own' = FIDGenerator_destroy(own, o)
    /\ UNCHANGED ownRest

NextOwn ==
    \/ OwnConstruct
    \/ OwnMoveConstruct
    \/ OwnMoveAssign
    \/ OwnDestroy

SpecOwn == InitOwn /\ [][NextOwn]_vars

Handles == 1..Len(own.rel)

Holders(h) == {o \in Objects : own.objs[o] = h}

\* C19: through construction, move construction, move assignment (of an
\* object to itself too) and destruction, every handle obtained from
\* flowerid_generator_new_ex is held by at most one FIDGenerator at a time,
\* is released at most once, is held by no object once released, and has
\* been released exactly once when no object is left.
C19_Ownership ==
    own.step = "run" =>
        /\ \A h \in Handles :
            /\ Cardinality(Holders(h)) <= 1
            /\ own.rel[h] <= 1
            /\ own.rel[h] = 1 => Holders(h) = {}
        /\ (\A o \in Objects : own.objs[o] = NoObject) =>
            \A h \in Handles : own.rel[h] = 1

\* Two handles were obtained and a constructor threw; an object was
\* assigned to itself; every object is gone and both handles are released.
C19_Witness ==
    /\ own.step = "run"
    /\ Len(own.rel) = MaxHandles
    /\ own.thrown /\ own.self
    /\ \A o \in Objects : own.objs[o] = NoObject
    /\ \A h \in Handles : own.rel[h] = 1

(***************************************************************************)
(* Two FIDGenerator objects with generator ids of their own, each with its *)
(* native generator, its epoch offset and unit, and so its own adjusted    *)
(* clock: every sample is drawn freely.  Each object is called from a      *)
(* thread of its own and the binding holds no lock, so a call that waits   *)
(* on a full tick stays in flight while calls on the other object begin    *)
(* and return; it returns on a later sample above last_timestamp.          *)
(*   pair.gens     the two native generators                               *)
(*   pair.issued   the identifiers each object returned                    *)
(*   pair.n        the calls begun                                         *)
(*   pair.wait     per object: its call is in flight, waiting on a tick    *)
(*   pair.during   per object: a call on the other object returned an      *)
(*                 identifier while this object's call was in flight       *)
(*   pair.overlap  a call returned an identifier after such a wait         *)
(*   pair.other    the other object and its state before the last step     *)
(***************************************************************************)
PairIds == {Num(0), GoldenGenerator, Mask(GeneratorBits)}

PairClock == {Num(1000), Num(1001)}

PairStates == {<<Num(0), Num(0)>>, <<Num(1000), Num(0)>>, <<Num(1000), Num(2046)>>, <<Num(1000), Num(2047)>>}

PairBuilder(g, state, wait, offset) ==
    LET b == Builder_timestamp_offset(Builder_sequence(Builder_timestamp_last(
                 FIDGeneratorBuilder(g), state[1]), state[2]), offset)
    IN  IF wait THEN b ELSE Builder_not_wait_sequence(b)

pairRest == <<genVars, codec, threadVars, parse, cmp, stage, own>>

InitPair ==
    /\ \E g1, g2 \in PairIds, s1, s2 \in PairStates, wait \in BOOLEAN :
        /\ g1 # g2
        /\ pair = [step |-> "run",
                   gens |-> <<Builder_build(PairBuilder(g1, s1, wait,
                                                DefaultTimestampOffset)).val,
                              Builder_build(PairBuilder(g2, s2, ~wait, 0)).val>>,
                   issued |-> <<{}, {}>>,
                   n |-> 0,
                   wait |-> <<FALSE, FALSE>>,
                   during |-> <<FALSE, FALSE>>,
                   overlap |-> FALSE,
                   other |-> None]
    /\ GenOff /\ CodecIdle /\ ThreadsIdle
    /\ parse = Off /\ cmp = Off /\ stage = Off /\ own = Off

\* The other object's state as the step on object k found it.
PairOther(k) == [k |-> 3 - k, state |-> StateOf(pair.gens[3 - k])]

\* The native call on object k went to wait on its full tick.
PairWaiting(k) ==
    [pair EXCEPT !.wait[k] = TRUE, !.during[k] = FALSE,
                 !.other = PairOther(k)]

\* FIDGenerator::next on object k returns or throws, the native call
\* having returned r.
PairReturned(k, r) ==
    LET ret == FIDGenerator_next(r)
    IN  [pair EXCEPT
            !.gens[k] = r.gen,
            !.issued[k] = IF ret.ok THEN @ \cup {ret.val} ELSE @,
            !.wait[k] = FALSE,
            !.during[k] = FALSE,
            !.during[3 - k] = @ \/ (pair.wait[3 - k] /\ ret.ok),
            !.overlap = @ \/ (pair.wait[k] /\ pair.during[k] /\ ret.ok),
            !.other = PairOther(k)]

\* next() on object k begins: the native call takes its first sample and
\* returns, or starts to wait on a full tick.
PairCall(k) ==
    /\ pair.step = "run"
    /\ ~pair.wait[k]
    /\ pair.n < MaxPairCalls
    /\ \E now \in PairClock :
        LET r == flowerid_generator_next(pair.gens[k], now)
            p == IF r.blocked THEN PairWaiting(k) ELSE PairReturned(k, r)
        IN  pair' = [p EXCEPT !.n = @ + 1]
    /\ UNCHANGED pairRest

\* The waiting call on object k samples its clock again.
PairResample(k) ==
    /\ pair.step = "run"
    /\ pair.wait[k]
    /\ \E now \in PairClock :
        LET r == flowerid_generator_next_resample(pair.gens[k], now)
        IN  pair' = IF r.blocked THEN [pair EXCEPT !.other = PairOther(k)]
                    ELSE PairReturned(k, r)
    /\ UNCHANGED pairRest

NextPair ==
    \/ \E k \in {1, 2} : PairCall(k)
    \/ \E k \in {1, 2} : PairResample(k)

SpecPair == InitPair /\ [][NextPair]_vars

\* C20: two generators built with different generator ids never return the
\* same identifier, whatever their clocks, epoch offsets, initial states
\* and the order and overlap of their next() calls, and a step of next()
\* on one of them leaves the (last_timestamp, sequence) of the other as it
\* was.
C20_Disjoint ==
    pair.step = "run" =>
        /\ pair.issued[1] \cap pair.issued[2] = {}
        /\ \A a \in pair.issued[1], b \in pair.issued[2] : FID_ne(a, b)
        /\ pair.other # None =>
            StateOf(pair.gens[pair.other.k]) = pair.other.state

\* A call on one object waited on its full tick, a call on the other
\* object began and returned an identifier meanwhile, and the waiting call
\* then returned one of the same tick and sequence, apart in the generator
\* field alone.
C20_Witness ==
    /\ pair.step = "run"
    /\ pair.overlap
    /\ \E a \in pair.issued[1], b \in pair.issued[2] :
        /\ FID_timestamp(a) = FID_timestamp(b)
        /\ FID_sequence(a) = FID_sequence(b)
        /\ FID_generator(a) # FID_generator(b)

=============================================================================
